---- MODULE Spec2Model ----
(***************************************************************************)
(* Model of deployment/src/process_data.py (the batch pipeline: COVID case *)
(* aggregation, flight mapping and aggregation, main) and of load_data in  *)
(* deployment/src/streamlit_app_V2_1.py (the dashboard's reload of the     *)
(* exported files).                                                        *)
(*                                                                         *)
(* Representation.  A nullable column value is a sequence of length <= 1:  *)
(* <<>> is SQL NULL / NaN / Python None, <<v>> is the value v.  A          *)
(* timestamp is <<year, month, day, hour>>, a 'yyyy-MM-dd' string is       *)
(* <<year, month, day>> and a 'yyyy-MM' string is <<year, month>>; their   *)
(* lexicographic order is the string order.  A raw table (DataFrame read   *)
(* from a file) is a sequence of rows, so equal rows may repeat; grouped   *)
(* tables have one row per key and are sets of rows.                       *)
(***************************************************************************)
EXTENDS Integers, Sequences, FiniteSets, TLC

VARIABLES
    pc,                 \* position of the run that is modelled
    df,                 \* raw daily case table (df / df_covid)
    country,            \* argument country (allow-list) of the function / of main
    covid_daily,        \* result of process_covid_daily_data
    logged,             \* what process_covid_daily_data logs about bad dates
    covid_monthly,      \* result of process_covid_monthly_data
    df_flight,          \* raw itinerary table
    airports,           \* reference table airports.csv: (icao, country)
    countries,          \* reference table countries.csv: (country, country_code)
    df_flight_mapped,   \* result of map_flight_data
    direction,          \* argument direction of process_flight_data
    granular,           \* argument granular of process_flight_data
    df_flight_monthly,  \* result of process_flight_data
    raw_dir,            \* the data directory: per year_month selector, the raw
                        \* case table and the raw itinerary table behind its glob
    readable,           \* the sources whose files can be read
    year_month,         \* argument year_month of main
    flight_country,     \* main: flight_country (line 261)
    covid_monthly_country,  \* main: covid_monthly_country (line 284)
    bound,              \* main: its local names that hold a table (a name
                        \* outside is None, or not assigned at all)
    outcome,            \* how main ended, "running" before
    files,              \* the save folder: the files written, by name
    df_covid_month,     \* load_data: the reloaded case summary of all countries
    df_covid_month_US,  \* load_data: the reloaded case summary of the US files
    df_end2,            \* load_data: the reloaded flight summary
    df_end              \* load_data: the flight summary by destination

covidVars == <<df, covid_daily, logged, covid_monthly>>

flightVars == <<df_flight, airports, countries, df_flight_mapped, direction, granular,
                df_flight_monthly>>

mainVars == <<raw_dir, readable, year_month, flight_country, covid_monthly_country,
              bound, outcome, files>>

dashVars == <<df_covid_month, df_covid_month_US, df_end2, df_end>>

vars == <<pc, country, covidVars, flightVars, mainVars, dashVars>>

----------------------------------------------------------------------------
(* Nullable values and Spark's null-aware aggregates                        *)

Null == <<>>

Some(v) == <<v>>

IsNull(x) == x = <<>>

\* the difference taken the wrong way round: lag(stat) - stat
NullSubSwapped(a, b) == IF IsNull(a) \/ IsNull(b) THEN Null ELSE Some(b[1] - a[1])

\* F.col(stat) - F.lag(stat): NULL when either operand is NULL
NullSub(a, b) == IF IsNull(a) \/ IsNull(b) THEN Null ELSE Some(a[1] - b[1])

RECURSIVE SumOn(_, _)
\* sum of the non-null f[x], x in S (0 for none)
SumOn(f, S) ==
    IF S = {} THEN 0
    ELSE LET x == CHOOSE y \in S : TRUE
         IN  (IF IsNull(f[x]) THEN 0 ELSE f[x][1]) + SumOn(f, S \ {x})

NonNullOf(f) == {x \in DOMAIN f : ~IsNull(f[x])}

\* F.sum over a group: nulls are skipped; NULL when the group has no value
NullSum(f) == IF NonNullOf(f) = {} THEN Null ELSE Some(SumOn(f, NonNullOf(f)))

\* F.max over a group: nulls are skipped; NULL when the group has no value
NullMax(f) ==
    IF NonNullOf(f) = {} THEN Null
    ELSE Some(CHOOSE m \in {f[x][1] : x \in NonNullOf(f)} :
                 \A x \in NonNullOf(f) : f[x][1] <= m)

----------------------------------------------------------------------------
(* COVID case processing                                                    *)

stats == {"Confirmed", "Deaths", "Recovered", "Active"}

\* F.date_format(Last_Update, 'yyyy-MM-dd'): the time of day is dropped
date_format_day(ts) == IF IsNull(ts) THEN Null ELSE <<ts[1], ts[2], ts[3]>>

\* F.date_format(date, 'yyyy-MM')
date_format_month(d) == <<d[1], d[2]>>

\* F.year('date')
year(d) == d[1]

\* string order of two 'yyyy-MM-dd' (or 'yyyy-MM') values, as tuples
LexLt(a, b) ==
    \E i \in 1..Len(a) : a[i] < b[i] /\ \A j \in 1..(i - 1) : a[j] = b[j]

\* the allow-list argument: None, or a Python list of names
NoCountry == [given |-> FALSE, names |-> <<>>]

CountryList(l) == [given |-> TRUE, names |-> l]

\* Column.isin(list)
IsIn(x, l) == \E i \in DOMAIN l : l[i] = x

\* lines 88-91: country filter of process_covid_daily_data
FilterCountry(t, c) ==
    IF ~c.given THEN t ELSE SelectSeq(t, LAMBDA r : IsIn(r.Country_Region, c.names))

\* line 93: the derived date column
WithDate(t) ==
    [i \in DOMAIN t |-> [date |-> date_format_day(t[i].Last_Update),
                         Country_Region |-> t[i].Country_Region,
                         counters |-> t[i].counters]]

YearLo == 2020

YearHi == 2024

\* lines 99-103: the condition of the logged count and of the logged rows
Abnormal(r) == IsNull(r.date) \/ year(r.date) >= YearHi \/ year(r.date) < YearLo

\* lines 98-101: _count, 'date Missing Abnormal' and its percentage (kept as
\* the fraction <<numerator, denominator>>; NULL for an empty table)
DateMissingAbnormal(t) ==
    LET n == Cardinality({i \in DOMAIN t : Abnormal(t[i])})
    IN  [count |-> n,
         percent |-> IF t = <<>> THEN Null ELSE Some(<<n * 100, Len(t)>>)]

\* lines 102-108: _details.toPandas().head(10), the rows shown as offending
Details(t) ==
    LET d == SelectSeq(t, Abnormal)
    IN  IF Len(d) <= 10 THEN d ELSE SubSeq(d, 1, 10)

\* lines 98-108: what is logged about the dates of the table
LogDates(t) == [count |-> DateMissingAbnormal(t).count,
                percent |-> DateMissingAbnormal(t).percent,
                details |-> Details(t)]

\* nothing logged yet
NoLog == [count |-> 0, percent |-> Null, details |-> <<>>]

\* the filter written with the bounds of the logged count (lines 99-103)
DateKeptAsLogged(r) == ~IsNull(r.date) /\ year(r.date) >= YearLo /\ year(r.date) < YearHi

\* line 111: na.drop(subset=['date']) and the year filter
DateKept(r) == ~IsNull(r.date) /\ year(r.date) >= YearLo /\ year(r.date) <= YearHi

DropBadDates(t) == SelectSeq(t, DateKept)

\* the aggregation with a sum of the distinct values of each group
GroupDailyDistinct(t) ==
    { [date |-> k[1], Country_Region |-> k[2],
       cumulative |-> [s \in stats |->
            NullSum([v \in {t[i].counters[s] :
                               i \in {j \in DOMAIN t : t[j].date = k[1]
                                                       /\ t[j].Country_Region = k[2]}}
                        |-> v])]]
      : k \in {<<t[i].date, t[i].Country_Region>> : i \in DOMAIN t} }

\* lines 114-116: groupBy('date', 'Country_Region').agg(sum of every counter)
GroupDaily(t) ==
    { [date |-> k[1], Country_Region |-> k[2],
       cumulative |-> [s \in stats |->
            NullSum([i \in {j \in DOMAIN t : t[j].date = k[1]
                                          /\ t[j].Country_Region = k[2]}
                        |-> t[i].counters[s]])]]
      : k \in {<<t[i].date, t[i].Country_Region>> : i \in DOMAIN t} }

\* Window.partitionBy().orderBy('date'): no partition column, so the window
\* is the whole table sorted by date; rows with equal dates (of different
\* countries) come in an order Spark does not specify
WindowOrders(g) ==
    {o \in [1..Cardinality(g) -> g] :
        /\ \A i, j \in DOMAIN o : i # j => o[i] # o[j]
        /\ \A i, j \in DOMAIN o : i < j => ~LexLt(o[j].date, o[i].date)}

\* F.lag(stat).over(window): the value of the row just before row i of the
\* window, NULL for the first row of the window
Lag(o, i, s) == IF i = 1 THEN Null ELSE o[i - 1].cumulative[s]

\* lines 119-122: <stat>_daily_new = stat - lag(stat), stat renamed
WithDailyNew(o) ==
    { [date |-> o[i].date, Country_Region |-> o[i].Country_Region,
       cumulative |-> o[i].cumulative,
       daily_new |-> [s \in stats |-> NullSub(o[i].cumulative[s], Lag(o, i, s))]]
      : i \in DOMAIN o }

\* process_covid_daily_data: the tables it may return for (table, country)
process_covid_daily_data(t, c) ==
    { WithDailyNew(o) :
        o \in WindowOrders(GroupDaily(DropBadDates(WithDate(FilterCountry(t, c))))) }

\* the cumulative value of the last day of the group instead of the maximum
MonthlyCumulativeLast(grp, s) ==
    (CHOOSE r \in grp : \A q \in grp : ~LexLt(r.date, q.date)).cumulative[s]

\* line 149: F.max(<stat>_cumulative) over one (year_month, country) group
MonthlyCumulative(grp, s) == NullMax([r \in grp |-> r.cumulative[s]])

\* a sum that a null delta turns into NULL instead of skipping it
MonthlyNewStrict(grp, s) ==
    IF \E r \in grp : IsNull(r.daily_new[s]) THEN Null
    ELSE NullSum([r \in grp |-> r.daily_new[s]])

\* line 150: F.sum(<stat>_daily_new) over one (year_month, country) group
MonthlyNew(grp, s) == NullSum([r \in grp |-> r.daily_new[s]])

\* a group by year_month alone: the rows of the month, of every country
MonthGroupAnyCountry(daily, ym, c) ==
    {r \in daily : date_format_month(r.date) = ym}

\* lines 147-148: the rows of one (year_month, Country_Region) group
MonthGroup(daily, ym, c) ==
    {r \in daily : date_format_month(r.date) = ym /\ r.Country_Region = c}

\* process_covid_monthly_data
process_covid_monthly_data(daily) ==
    { [year_month |-> k[1], Country_Region |-> k[2],
       cumulative |-> [s \in stats |-> MonthlyCumulative(MonthGroup(daily, k[1], k[2]), s)],
       monthly_new |-> [s \in stats |-> MonthlyNew(MonthGroup(daily, k[1], k[2]), s)]]
      : k \in {<<date_format_month(r.date), r.Country_Region>> : r \in daily} }

----------------------------------------------------------------------------
(* Flight processing                                                        *)

RECURSIVE SetToSeq(_)
\* the rows of a set, as a table
SetToSeq(S) ==
    IF S = {} THEN <<>>
    ELSE LET x == CHOOSE y \in S : TRUE IN <<x>> \o SetToSeq(S \ {x})

RECURSIVE Flatten(_)
\* the table made of the rows of every set of ss, in turn
Flatten(ss) == IF ss = <<>> THEN <<>> ELSE SetToSeq(Head(ss)) \o Flatten(Tail(ss))

\* the right side of a left join on icao: the matching airports, or one row of
\* NULLs when the code matches none (a NULL code matches none)
AirportMatches(ap, code) ==
    LET m == {a \in ap : Some(a.icao) = code}
    IN  IF m = {} THEN {[icao |-> Null, country |-> Null]}
        ELSE {[icao |-> Some(a.icao), country |-> Some(a.country)] : a \in m}

\* lines 197-201: both airport joins, for every itinerary
JoinAirports(t, ap) ==
    Flatten([i \in DOMAIN t |->
        { [day |-> t[i].day,
           origin_country |-> o.country, destination_country |-> d.country,
           origin_icao |-> o.icao, destination_icao |-> d.icao]
          : o \in AirportMatches(ap, t[i].origin),
            d \in AirportMatches(ap, t[i].destination) }])

\* F.to_date('day'): the date of a timestamp, NULL for text that is no date
to_date(day) == IF IsNull(day) THEN Null ELSE <<day[1], day[2], day[3]>>

\* lines 202-204: day as a date, and its year_month
WithYearMonth(t) ==
    [i \in DOMAIN t |->
        LET d == to_date(t[i].day)
        IN  [day |-> d,
             year_month |-> IF IsNull(d) THEN Null ELSE date_format_month(d),
             origin_country |-> t[i].origin_country,
             destination_country |-> t[i].destination_country,
             origin_icao |-> t[i].origin_icao,
             destination_icao |-> t[i].destination_icao]]

\* the right side of a left join on country_code: the names of the code, or
\* NULL when the code matches none
CountryMatches(ct, code) ==
    LET m == {c \in ct : Some(c.country_code) = code}
    IN  IF m = {} THEN {Null} ELSE {Some(c.country) : c \in m}

\* lines 206-211: both country joins; the code columns are renamed to
\* <side>_country_code and the names become <side>_country
JoinCountries(t, ct) ==
    Flatten([i \in DOMAIN t |->
        { [day |-> t[i].day, year_month |-> t[i].year_month,
           origin_country_code |-> t[i].origin_country,
           destination_country_code |-> t[i].destination_country,
           origin_country |-> o, destination_country |-> d,
           origin_icao |-> t[i].origin_icao,
           destination_icao |-> t[i].destination_icao]
          : o \in CountryMatches(ct, t[i].origin_country),
            d \in CountryMatches(ct, t[i].destination_country) }])

\* the filter of line 217 without its test of the day
MappedWithoutDay(r) == /\ ~IsNull(r.origin_country)
                       /\ ~IsNull(r.destination_country)

\* line 217: rows without origin country, destination country or day are dropped
Mapped(r) == /\ ~IsNull(r.origin_country)
             /\ ~IsNull(r.destination_country)
             /\ ~IsNull(r.day)

\* map_flight_data
map_flight_data(t, ap, ct) ==
    SelectSeq(JoinCountries(WithYearMonth(JoinAirports(t, ap)), ct), Mapped)

\* the column <direction>_country of a row
SideCountry(r, dir) == IF dir = "origin" THEN r.origin_country ELSE r.destination_country

\* the country filter applied to the origin whatever the direction
FilterSideOrigin(t, dir, c) ==
    IF c.given /\ c.names # <<>>
    THEN SelectSeq(t, LAMBDA r : /\ ~IsNull(r.origin_country)
                                 /\ IsIn(r.origin_country[1], c.names))
    ELSE t

\* lines 235-236: the country filter, applied when the list is neither None
\* nor empty
FilterSide(t, dir, c) ==
    IF c.given /\ c.names # <<>>
    THEN SelectSeq(t, LAMBDA r : /\ ~IsNull(SideCountry(r, dir))
                                 /\ IsIn(SideCountry(r, dir)[1], c.names))
    ELSE t

\* a domestic filter that compares the country names instead of the codes
InternationalByName(r) ==
    /\ ~IsNull(r.origin_country) /\ ~IsNull(r.destination_country)
    /\ r.origin_country # r.destination_country

\* line 238: origin_country_code != destination_country_code (a comparison
\* with NULL is not true)
International(r) ==
    /\ ~IsNull(r.origin_country_code) /\ ~IsNull(r.destination_country_code)
    /\ r.origin_country_code # r.destination_country_code

\* the time bucket of a row: the column named by granular
Bucket(r, gran) == IF gran = "day" THEN r.day ELSE r.year_month

FlightKey(r, gran) ==
    <<Bucket(r, gran), r.origin_country, r.origin_country_code,
      r.destination_country, r.destination_country_code>>

\* lines 240-241: groupBy(...).agg(count('*'))
CountFlights(t, gran) ==
    { [bucket |-> k[1], origin_country |-> k[2], origin_country_code |-> k[3],
       destination_country |-> k[4], destination_country_code |-> k[5],
       flight_count |-> Cardinality({i \in DOMAIN t : FlightKey(t[i], gran) = k})]
      : k \in {FlightKey(t[i], gran) : i \in DOMAIN t} }

\* a grouping by the time bucket and the country of the chosen direction
\* alone, the columns of the other side left empty
process_flight_data_by_side(t, dir, gran, c) ==
    LET kept == SelectSeq(FilterSide(t, dir, c), International)
        side(r) == IF dir = "origin"
                   THEN <<Bucket(r, gran), r.origin_country, r.origin_country_code,
                          Null, Null>>
                   ELSE <<Bucket(r, gran), Null, Null,
                          r.destination_country, r.destination_country_code>>
    IN  { [bucket |-> k[1], origin_country |-> k[2], origin_country_code |-> k[3],
           destination_country |-> k[4], destination_country_code |-> k[5],
           flight_count |-> Cardinality({i \in DOMAIN kept : side(kept[i]) = k})]
          : k \in {side(kept[i]) : i \in DOMAIN kept} }

\* process_flight_data (the rows of its result; their order is not modelled)
process_flight_data(t, dir, gran, c) ==
    CountFlights(SelectSeq(FilterSide(t, dir, c), International), gran)

----------------------------------------------------------------------------
(* Strings, file names and CSV files                                        *)

\* the characters of the strings that main puts into file names
Chars(str) ==
    CASE str = "US" -> <<"U", "S">>
      [] str = "France" -> <<"F", "r", "a", "n", "c", "e">>
      [] str = "United States" ->
            <<"U", "n", "i", "t", "e", "d", " ", "S", "t", "a", "t", "e", "s">>
      [] str = "*" -> <<"*">>
      [] str = "all" -> <<"a", "l", "l">>
      [] str = "covid" -> <<"c", "o", "v", "i", "d">>
      [] str = "flight" -> <<"f", "l", "i", "g", "h", "t">>
      [] str = "202101" -> <<"2", "0", "2", "1", "0", "1">>
      [] str = "202102" -> <<"2", "0", "2", "1", "0", "2">>
      [] str = "_" -> <<"_">>
      [] str = "__" -> <<"_", "_">>
      [] str = "" -> <<>>

RECURSIVE Join(_, _)
\* sep.join(l), l a list of strings
Join(sep, l) ==
    IF l = <<>> THEN <<>>
    ELSE IF Len(l) = 1 THEN Chars(l[1])
    ELSE Chars(l[1]) \o sep \o Join(sep, Tail(l))

RECURSIVE Replace(_, _, _)
\* str.replace(ch, rep) for a one-character ch
Replace(cs, ch, rep) ==
    IF cs = <<>> THEN <<>>
    ELSE (IF Head(cs) = ch THEN rep ELSE <<Head(cs)>>) \o Replace(Tail(cs), ch, rep)

\* the names joined by one underscore, nothing replaced
ScopeJoinedByOne(names) == Join(Chars("_"), names)

\* lines 285, 288: "__".join(country).replace(" ", "_").replace("*", "all")
Scope(names) == Replace(Replace(Join(Chars("__"), names), " ", Chars("_")), "*", Chars("all"))

\* f'{kind}_{year_month}_{scope}'
FileName(kind, ym, scope) == Chars(kind) \o Chars("_") \o Chars(ym) \o Chars("_") \o scope

\* DataFrame.to_csv of a flight summary: a NULL is written as an empty field,
\* a string as its text
CsvText(x) == IF IsNull(x) THEN "" ELSE x[1]

to_csv_flight(t) ==
    { [year_month |-> r.bucket,
       origin_country |-> CsvText(r.origin_country),
       origin_country_code |-> CsvText(r.origin_country_code),
       destination_country |-> CsvText(r.destination_country),
       destination_country_code |-> CsvText(r.destination_country_code),
       flight_count |-> r.flight_count] : r \in t }

\* DataFrame.to_csv of a case summary (Country_Region is text already, a null
\* number is an empty field)
to_csv_covid(t) == t

\* save_covid_data / save_flight_data: the file is created or overwritten
WriteFile(fs, name, table) ==
    {f \in fs : f.name # name} \cup {[name |-> name, table |-> table]}

----------------------------------------------------------------------------
(* main                                                                     *)

\* line 261: flight_country
FlightCountry(c) ==
    CountryList([i \in DOMAIN c.names |->
                    IF c.names[i] # "US" THEN c.names[i] ELSE "United States"])

\* line 284: covid_monthly.filter(Country_Region isin country)
FilterMonthly(t, c) == {r \in t : IsIn(r.Country_Region, c.names)}

\* a Python list, or None, taken as a condition
Truthy(c) == c.given /\ c.names # <<>>

\* the exporter writing the file of all countries only
CovidFilesAllOnly(fs, ym, c, monthly) ==
    WriteFile(fs, FileName("covid", ym, Chars("all")), to_csv_covid(monthly))

\* lines 281-285 of main, covid_monthly being a table: the save folder after
\* the file of all countries and, for a non-empty list, the file of the list
CovidFiles(fs, ym, c, monthly) ==
    LET all == WriteFile(fs, FileName("covid", ym, Chars("all")), to_csv_covid(monthly))
    IN  IF Truthy(c)
        THEN WriteFile(all, FileName("covid", ym, Scope(c.names)),
                       to_csv_covid(FilterMonthly(monthly, c)))
        ELSE all

\* lines 287-288 of main, df_flight_monthly being a table
FlightFiles(fs, ym, c, monthly) ==
    WriteFile(fs, FileName("flight", ym, Scope(c.names)), to_csv_flight(monthly))

----------------------------------------------------------------------------
(* load_data of the dashboard                                               *)

\* the texts that pandas.read_csv reads as NaN
NaStrings ==
    { "", "#N/A", "#N/A N/A", "#NA", "-1.#IND", "-1.#QNAN", "-NaN", "-nan", "1.#IND",
      "1.#QNAN", "<NA>", "N/A", "NA", "NULL", "NaN", "None", "n/a", "nan", "null" }

\* pandas.read_csv of a text field
read_csv_text(x) == IF x \in NaStrings THEN Null ELSE Some(x)

\* fs.glob('<prefix>*<suffix>.csv'): the files of the save folder that match
Glob(fs, prefix, suffix) ==
    {f \in fs : /\ Len(f.name) >= Len(prefix) + Len(suffix)
                /\ SubSeq(f.name, 1, Len(prefix)) = prefix
                /\ SubSeq(f.name, Len(f.name) - Len(suffix) + 1, Len(f.name)) = suffix}

\* pd.concat of the tables of the files, before the fields are parsed
ConcatFiles(fl) ==
    LET l == SetToSeq(fl) IN Flatten([i \in DOMAIN l |-> l[i].table])

\* lines 47-48: the case files read and concatenated
ReadCases(fl) ==
    LET t == ConcatFiles(fl)
    IN  [i \in DOMAIN t |->
            [year_month |-> t[i].year_month,
             Country_Region |-> read_csv_text(t[i].Country_Region),
             cumulative |-> t[i].cumulative]]

\* line 50: fillna(0) of the cumulative columns
FillNa(t) ==
    [i \in DOMAIN t |->
        [t[i] EXCEPT !.cumulative =
            [s \in stats |-> IF IsNull(t[i].cumulative[s]) THEN Some(0)
                             ELSE t[i].cumulative[s]]]]

\* pandas sum of a group: NaN is skipped, 0 when nothing is left
PandasSum(f) == SumOn(f, DOMAIN f)

\* lines 51-52: groupby(['year_month', 'Country_Region'])[stats].sum(); rows
\* with NaN in a key column are in no group
SumCases(t) ==
    { [year_month |-> k[1], Country_Region |-> k[2],
       cumulative |-> [s \in stats |->
            PandasSum([i \in {j \in DOMAIN t : /\ t[j].year_month = k[1]
                                               /\ t[j].Country_Region = k[2]}
                          |-> t[i].cumulative[s]])]]
      : k \in {<<t[i].year_month, t[i].Country_Region>> :
                  i \in {j \in DOMAIN t : ~IsNull(t[j].Country_Region)}} }

\* a diff that is not grouped by country: against a row of the latest earlier
\* month, whatever its country
MonthlyDiffUngrouped(g) ==
    { [year_month |-> r.year_month, Country_Region |-> r.Country_Region,
       cumulative |-> r.cumulative,
       monthly_new |-> [s \in stats |->
            LET before == {q \in g : LexLt(q.year_month, r.year_month)}
            IN  IF before = {} THEN Null
                ELSE LET q == CHOOSE x \in before :
                                  \A y \in before : ~LexLt(x.year_month, y.year_month)
                     IN  Some(r.cumulative[s] - q.cumulative[s])]]
      : r \in g }

\* lines 54-60: sort by key, then groupby('Country_Region')[stat].diff()
MonthlyDiff(g) ==
    { [year_month |-> r.year_month, Country_Region |-> r.Country_Region,
       cumulative |-> r.cumulative,
       monthly_new |-> [s \in stats |->
            LET before == {q \in g : /\ q.Country_Region = r.Country_Region
                                     /\ LexLt(q.year_month, r.year_month)}
            IN  IF before = {} THEN Null
                ELSE LET q == CHOOSE x \in before :
                                  \A y \in before : ~LexLt(x.year_month, y.year_month)
                     IN  Some(r.cumulative[s] - q.cumulative[s])]]
      : r \in g }

\* line 63: the flight files read and concatenated
ReadFlights(fl) ==
    LET t == ConcatFiles(fl)
    IN  [i \in DOMAIN t |->
            [year_month |-> t[i].year_month,
             destination_country |-> read_csv_text(t[i].destination_country),
             destination_country_code |-> read_csv_text(t[i].destination_country_code),
             origin_country |-> read_csv_text(t[i].origin_country),
             origin_country_code |-> read_csv_text(t[i].origin_country_code),
             flight_count |-> Some(t[i].flight_count)]]

ReloadKey(r) ==
    <<r.year_month, r.destination_country, r.destination_country_code,
      r.origin_country, r.origin_country_code>>

\* the rows that groupby(key) puts into a group: no NaN in a key column
Keyed(t) == {i \in DOMAIN t : \A n \in 1..5 : ~IsNull(ReloadKey(t[i])[n])}

\* line 65: ['flight_count'].sum() of one group
GroupCount(t, k) ==
    PandasSum([i \in {j \in Keyed(t) : ReloadKey(t[j]) = k} |-> t[i].flight_count])

\* lines 64-65: groupby(key)['flight_count'].sum()
SumFlights(t) ==
    { [year_month |-> k[1], destination_country |-> k[2],
       destination_country_code |-> k[3], origin_country |-> k[4],
       origin_country_code |-> k[5], flight_count |-> GroupCount(t, k)]
      : k \in {ReloadKey(t[i]) : i \in Keyed(t)} }

RECURSIVE SumCounts(_)
SumCounts(rows) ==
    IF rows = {} THEN 0
    ELSE LET r == CHOOSE x \in rows : TRUE
         IN  r.flight_count + SumCounts(rows \ {r})

\* line 66: groupby(key[:3])['flight_count'].sum()
SumByDestination(g) ==
    { [year_month |-> k[1], destination_country |-> k[2],
       destination_country_code |-> k[3],
       flight_count |-> SumCounts({r \in g : /\ r.year_month = k[1]
                                             /\ r.destination_country = k[2]
                                             /\ r.destination_country_code = k[3]})]
      : k \in {<<r.year_month, r.destination_country, r.destination_country_code>>
                 : r \in g} }

----------------------------------------------------------------------------
(* Inputs of the case-aggregation checks                                    *)

MaxRows == 3

Counters(c, d, r, a) ==
    [s \in stats |-> CASE s = "Confirmed" -> c [] s = "Deaths" -> d
                       [] s = "Recovered" -> r [] s = "Active" -> a]

CounterPool ==
    { Counters(Some(1), Some(0), Null, Some(1)),
      Counters(Some(2), Some(1), Null, Some(0)),
      Counters(Some(4), Null, Some(1), Some(2)) }

CountryPool == {"US", "France"}

\* in-range days of two months
StampPool == { <<2020, 3, 1, 4>>, <<2020, 3, 2, 4>>,
               <<2020, 3, 3, 4>>, <<2020, 4, 1, 4>> }

RowsOf(stamps, counters) ==
    [Country_Region : CountryPool, Last_Update : stamps, counters : counters]

\* a canonical file order: the functions applied are insensitive to the order
\* of the rows of the raw table, so one order per multiset of rows is drawn
StampRank(ts) == IF IsNull(ts) THEN 0
                 ELSE (((ts[1] - 2000) * 13 + ts[2]) * 32 + ts[3]) * 24 + ts[4]

ValRank(v) == IF IsNull(v) THEN 0 ELSE v[1] + 1

RowRank(r) ==
    <<StampRank(r.Last_Update), IF r.Country_Region = "US" THEN 0 ELSE 1,
      ValRank(r.counters["Confirmed"]), ValRank(r.counters["Deaths"]),
      ValRank(r.counters["Recovered"]), ValRank(r.counters["Active"])>>

Tables(pool, n) ==
    UNION { {t \in [1..k -> pool] :
                \A i \in 1..(k - 1) : ~LexLt(RowRank(t[i + 1]), RowRank(t[i]))}
            : k \in 0..n }

AllowLists == {NoCountry, CountryList(<<"US">>)}

----------------------------------------------------------------------------
(* Case aggregation as a run: daily aggregation, then the monthly roll-up   *)

\* the variables of the flight processing, while it is not part of the run
NoFlight ==
    /\ df_flight = <<>>
    /\ airports = {}
    /\ countries = {}
    /\ df_flight_mapped = <<>>
    /\ direction = "origin"
    /\ granular = "day"
    /\ df_flight_monthly = {}

\* the variables of load_data, before it has run
NoDash ==
    /\ df_covid_month = {}
    /\ df_covid_month_US = {}
    /\ df_end2 = {}
    /\ df_end = {}

\* the variables of main, while main is not part of the run
NoMain ==
    /\ raw_dir = <<>>
    /\ readable = {}
    /\ year_month = ""
    /\ flight_country = NoCountry
    /\ covid_monthly_country = {}
    /\ bound = {}
    /\ outcome = "running"
    /\ files = {}
    /\ NoDash

InitCovid ==
    /\ NoFlight
    /\ NoMain
    /\ pc = "raw"
    /\ df \in Tables(RowsOf(StampPool, CounterPool), MaxRows)
    /\ country \in AllowLists
    /\ covid_daily = {}
    /\ logged = NoLog
    /\ covid_monthly = {}

ProcessCovidDaily ==
    /\ pc = "raw"
    /\ covid_daily' \in process_covid_daily_data(df, country)
    /\ logged' = LogDates(WithDate(FilterCountry(df, country)))
    /\ pc' = "daily"
    /\ UNCHANGED <<dashVars, df, country, covid_monthly, flightVars, mainVars>>

ProcessCovidMonthly ==
    /\ pc = "daily"
    /\ covid_monthly' = process_covid_monthly_data(covid_daily)
    /\ pc' = "monthly"
    /\ UNCHANGED <<dashVars, df, country, covid_daily, logged, flightVars, mainVars>>

NextCovid == ProcessCovidDaily \/ ProcessCovidMonthly

SpecCovid == InitCovid /\ [][NextCovid]_vars

\* the same run over tables whose dates are missing, out of range or at the
\* edges of the range
BadStampPool == { Null, <<2019, 12, 31, 23>>, <<2020, 1, 1, 0>>, <<2020, 1, 1, 12>>,
                  <<2024, 12, 31, 23>>, <<2025, 1, 1, 0>>, <<2682, 1, 1, 0>> }

SmallCounterPool ==
    { Counters(Some(1), Some(0), Null, Some(1)),
      Counters(Some(2), Null, Some(1), Some(0)) }

InitDates ==
    /\ NoFlight
    /\ NoMain
    /\ pc = "raw"
    /\ df \in Tables(RowsOf(BadStampPool, SmallCounterPool), MaxRows)
    /\ country \in AllowLists
    /\ covid_daily = {}
    /\ logged = NoLog
    /\ covid_monthly = {}

SpecDates == InitDates /\ [][NextCovid]_vars

----------------------------------------------------------------------------
(* Flight mapping and aggregation as a run                                  *)

MaxFlights == 3

AirportTable ==
    { [icao |-> "KJFK", country |-> "US"], [icao |-> "KLAX", country |-> "US"],
      [icao |-> "CYYZ", country |-> "CA"], [icao |-> "FYWH", country |-> "NA"],
      [icao |-> "BKPR", country |-> "XK"] }

\* the country table, and one that lists a second name for the code US
CountryTable ==
    { [country |-> "United States", country_code |-> "US"],
      [country |-> "Canada", country_code |-> "CA"],
      [country |-> "Namibia", country_code |-> "NA"] }

CountryTableAlias ==
    CountryTable \cup {[country |-> "United States of America", country_code |-> "US"]}

Itinerary(d, o, a) == [day |-> d, origin |-> o, destination |-> a]

\* itineraries between the airports of the table on three days of two months,
\* one without a readable day, one from an airport whose country code is not
\* in the country table, and two with an airport code that is in no table
ItineraryPool ==
    { Itinerary(d, Some(p[1]), Some(p[2])) :
        d \in {<<2021, 1, 5, 9>>, <<2021, 1, 20, 9>>, <<2021, 2, 3, 9>>},
        p \in {<<"CYYZ", "KJFK">>, <<"KJFK", "CYYZ">>, <<"KJFK", "KLAX">>,
               <<"FYWH", "KJFK">>} }
    \cup { Itinerary(Null, Some("CYYZ"), Some("KJFK")),
           Itinerary(<<2021, 1, 5, 9>>, Some("BKPR"), Some("KJFK")),
           Itinerary(<<2021, 1, 5, 9>>, Some("ZZZZ"), Some("KJFK")),
           Itinerary(<<2021, 1, 5, 9>>, Some("CYYZ"), Null) }

CodeRank(c) ==
    IF IsNull(c) THEN 0
    ELSE CASE c[1] = "KJFK" -> 1 [] c[1] = "KLAX" -> 2 [] c[1] = "CYYZ" -> 3
           [] c[1] = "FYWH" -> 4 [] c[1] = "BKPR" -> 5 [] OTHER -> 6

ItineraryRank(f) ==
    <<IF IsNull(f.day) THEN 0 ELSE f.day[2] * 32 + f.day[3],
      CodeRank(f.origin), CodeRank(f.destination)>>

\* one file order per multiset of itineraries
FlightTables(pool, n) ==
    UNION { {t \in [1..k -> pool] :
                \A i \in 1..(k - 1) :
                    ~LexLt(ItineraryRank(t[i + 1]), ItineraryRank(t[i]))}
            : k \in 0..n }

FlightFilters ==
    {NoCountry, CountryList(<<>>), CountryList(<<"United States">>)}

NoCovid ==
    /\ df = <<>>
    /\ covid_daily = {}
    /\ logged = NoLog
    /\ covid_monthly = {}

InitFlight ==
    /\ NoCovid
    /\ NoMain
    /\ pc = "raw"
    /\ df_flight \in FlightTables(ItineraryPool, MaxFlights)
    /\ airports = AirportTable
    /\ countries \in {CountryTable, CountryTableAlias}
    /\ country = NoCountry
    /\ df_flight_mapped = <<>>
    /\ direction = "origin"
    /\ granular = "day"
    /\ df_flight_monthly = {}

MapFlight ==
    /\ pc = "raw"
    /\ df_flight_mapped' = map_flight_data(df_flight, airports, countries)
    /\ pc' = "mapped"
    /\ UNCHANGED <<dashVars, country, covidVars, df_flight, airports, countries, direction,
                   granular, df_flight_monthly, mainVars>>

ProcessFlight ==
    /\ pc = "mapped"
    /\ \E dir \in {"origin", "destination"}, gran \in {"day", "year_month"},
          c \in FlightFilters :
          /\ direction' = dir
          /\ granular' = gran
          /\ country' = c
          /\ df_flight_monthly' = process_flight_data(df_flight_mapped, dir, gran, c)
    /\ pc' = "counted"
    /\ UNCHANGED <<dashVars, covidVars, df_flight, airports, countries, df_flight_mapped, mainVars>>

NextFlight == MapFlight \/ ProcessFlight

SpecFlight == InitFlight /\ [][NextFlight]_vars

----------------------------------------------------------------------------
(* A run of main                                                            *)

Sources == {"covid", "flight", "airports", "countries"}

CaseRow(c, ts, k) == [Country_Region |-> c, Last_Update |-> ts, counters |-> k]

MainCaseTables ==
    { <<CaseRow("US", <<2021, 1, 30, 4>>, Counters(Some(1), Some(0), Null, Some(1))),
        CaseRow("US", <<2021, 1, 31, 4>>, Counters(Some(2), Some(1), Null, Some(0))),
        CaseRow("France", <<2021, 1, 31, 4>>, Counters(Some(4), Null, Some(1), Some(2)))>>,
      <<CaseRow("France", <<2021, 2, 1, 4>>, Counters(Some(1), Some(0), Null, Some(1))),
        CaseRow("France", <<2682, 1, 1, 0>>, Counters(Some(2), Some(1), Null, Some(0)))>> }

MainFlightTables ==
    { <<Itinerary(<<2021, 1, 5, 9>>, Some("CYYZ"), Some("KJFK")),
        Itinerary(<<2021, 1, 5, 9>>, Some("KJFK"), Some("CYYZ")),
        Itinerary(<<2021, 1, 5, 9>>, Some("KJFK"), Some("KLAX"))>>,
      <<Itinerary(<<2021, 1, 20, 9>>, Some("FYWH"), Some("KJFK")),
        Itinerary(<<2021, 2, 3, 9>>, Some("CYYZ"), Some("KJFK"))>> }

Selectors == {"202101", "202102"}

\* the values of --country: absent (None), given without a name, or names
CountryArgs ==
    { NoCountry, CountryList(<<>>), CountryList(<<"US">>), CountryList(<<"France">>),
      CountryList(<<"US", "France">>), CountryList(<<"*">>),
      CountryList(<<"United States", "France">>) }

Init ==
    /\ NoFlight
    /\ NoCovid
    /\ pc = "copy_country"
    /\ year_month \in Selectors
    /\ country \in CountryArgs
    /\ readable \in SUBSET Sources
    /\ raw_dir \in [{year_month} -> [df : MainCaseTables, df_flight : MainFlightTables]]
    /\ flight_country = NoCountry
    /\ covid_monthly_country = {}
    /\ bound = {}
    /\ outcome = "running"
    /\ files = {}
    /\ NoDash

\* lines 260-261: country.copy() and the comprehension over country
CopyCountry ==
    /\ pc = "copy_country"
    /\ IF country.given
       THEN /\ flight_country' = FlightCountry(country)
            /\ pc' = "load_covid"
            /\ UNCHANGED outcome
       ELSE /\ outcome' = "AttributeError"
            /\ pc' = "done"
            /\ UNCHANGED flight_country
    /\ UNCHANGED <<dashVars, country, covidVars, flightVars, raw_dir, readable, year_month,
                   covid_monthly_country, bound, files>>

\* lines 263-269: load_covid_data returns None when the read raises
LoadCovid ==
    /\ pc = "load_covid"
    /\ IF "covid" \in readable
       THEN /\ df' = raw_dir[year_month].df
            /\ covid_daily' \in process_covid_daily_data(df', NoCountry)
            /\ logged' = LogDates(WithDate(FilterCountry(df', NoCountry)))
            /\ covid_monthly' = process_covid_monthly_data(covid_daily')
            /\ bound' = bound \cup {"covid_daily", "covid_monthly"}
       ELSE UNCHANGED <<covidVars, bound>>
    /\ pc' = "load_refs"
    /\ UNCHANGED <<dashVars, country, flightVars, raw_dir, readable, year_month, flight_country,
                   covid_monthly_country, outcome, files>>

\* lines 271-272: load_airports and load_countries read without a handler
LoadReferences ==
    /\ pc = "load_refs"
    /\ IF {"airports", "countries"} \subseteq readable
       THEN /\ airports' = AirportTable
            /\ countries' = CountryTable
            /\ pc' = "load_flight"
            /\ UNCHANGED outcome
       ELSE /\ outcome' = "AnalysisException"
            /\ pc' = "done"
            /\ UNCHANGED <<airports, countries>>
    /\ UNCHANGED <<dashVars, country, covidVars, df_flight, df_flight_mapped, direction, granular,
                   df_flight_monthly, raw_dir, readable, year_month, flight_country,
                   covid_monthly_country, bound, files>>

\* lines 273-279: load_flight_data returns None when the read raises
LoadFlight ==
    /\ pc = "load_flight"
    /\ IF "flight" \in readable
       THEN /\ df_flight' = raw_dir[year_month].df_flight
            /\ df_flight_mapped' = map_flight_data(df_flight', airports, countries)
            /\ direction' = "destination"
            /\ granular' = "year_month"
            /\ df_flight_monthly' =
                  process_flight_data(df_flight_mapped', "destination", "year_month",
                                      flight_country)
            /\ bound' = bound \cup {"df_flight_mapped", "df_flight_monthly"}
       ELSE UNCHANGED <<df_flight, df_flight_mapped, direction, granular,
                        df_flight_monthly, bound>>
    /\ pc' = "save_covid"
    /\ UNCHANGED <<dashVars, country, covidVars, airports, countries, raw_dir, readable, year_month,
                   flight_country, covid_monthly_country, outcome, files>>

\* lines 281-285: the file of all countries, then the file of the listed ones
SaveCovid ==
    /\ pc = "save_covid"
    /\ IF "covid_monthly" \in bound
       THEN /\ files' = CovidFiles(files, year_month, country, covid_monthly)
            /\ IF Truthy(country)
               THEN /\ covid_monthly_country' = FilterMonthly(covid_monthly, country)
                    /\ bound' = bound \cup {"covid_monthly_country"}
               ELSE UNCHANGED <<covid_monthly_country, bound>>
       ELSE UNCHANGED <<covid_monthly_country, bound, files>>
    /\ pc' = "save_flight"
    /\ UNCHANGED <<dashVars, country, covidVars, flightVars, raw_dir, readable, year_month,
                   flight_country, outcome>>

\* lines 287-288
SaveFlight ==
    /\ pc = "save_flight"
    /\ IF "df_flight_monthly" \in bound
       THEN files' = FlightFiles(files, year_month, country, df_flight_monthly)
       ELSE UNCHANGED files
    /\ pc' = "return"
    /\ UNCHANGED <<dashVars, country, covidVars, flightVars, raw_dir, readable, year_month,
                   flight_country, covid_monthly_country, bound, outcome>>

\* lines 290-291: the return statement reads covid_monthly_country
Return ==
    /\ pc = "return"
    /\ outcome' = IF "covid_monthly_country" \in bound THEN "returned"
                  ELSE "UnboundLocalError"
    /\ pc' = "done"
    /\ UNCHANGED <<dashVars, country, covidVars, flightVars, raw_dir, readable, year_month,
                   flight_country, covid_monthly_country, bound, files>>

Next ==
    \/ CopyCountry
    \/ LoadCovid
    \/ LoadReferences
    \/ LoadFlight
    \/ SaveCovid
    \/ SaveFlight
    \/ Return

Spec == Init /\ [][Next]_vars

----------------------------------------------------------------------------
(* The pipeline run for one selector after the other with --country US,     *)
(* and the dashboard loading the save folder                                *)

MaxDashFlights == 2

DashItineraryPool ==
    { Itinerary(<<2021, 1, 5, 9>>, Some("CYYZ"), Some("KJFK")),
      Itinerary(<<2021, 2, 3, 9>>, Some("CYYZ"), Some("KJFK")),
      Itinerary(<<2021, 1, 5, 9>>, Some("FYWH"), Some("KJFK")),
      Itinerary(<<2021, 1, 5, 9>>, Some("KJFK"), Some("KLAX")),
      Itinerary(<<2021, 1, 20, 9>>, Some("KJFK"), Some("CYYZ")) }

DashCaseTable ==
    <<CaseRow("US", <<2021, 1, 30, 4>>, Counters(Some(1), Some(0), Null, Some(1))),
      CaseRow("US", <<2021, 2, 1, 4>>, Counters(Some(2), Some(1), Null, Some(0)))>>

\* the sources that a run finds readable
DashReadable == {Sources, Sources \ {"flight"}, Sources \ {"covid"}}

\* the selector of the run that follows the run of ym
FollowingSelector(ym) ==
    CASE ym = "" -> "202101" [] ym = "202101" -> "202102" [] OTHER -> ""

InitDashFlight ==
    /\ NoFlight
    /\ NoCovid
    /\ NoDash
    /\ pc = "exports"
    /\ year_month = ""
    /\ country = CountryList(<<"US">>)
    /\ readable = Sources
    /\ raw_dir \in [Selectors -> [df : {DashCaseTable},
                                   df_flight : FlightTables(DashItineraryPool,
                                                            MaxDashFlights)]]
    /\ flight_country = NoCountry
    /\ covid_monthly_country = {}
    /\ bound = {}
    /\ outcome = "running"
    /\ files = {}

\* main from its first to its last line, for the following selector, called
\* with a non-empty country list and with readable reference tables
RunMain ==
    /\ pc = "exports"
    /\ Truthy(country)
    /\ FollowingSelector(year_month) \in Selectors
    /\ \E rd \in DashReadable :
        LET ym == FollowingSelector(year_month)
            fc == FlightCountry(country)
        IN  /\ year_month' = ym
            /\ readable' = rd
            /\ flight_country' = fc
            /\ airports' = AirportTable
            /\ countries' = CountryTable
            /\ direction' = "destination"
            /\ granular' = "year_month"
            /\ IF "covid" \in rd
               THEN /\ df' = raw_dir[ym].df
                    /\ covid_daily' \in process_covid_daily_data(df', NoCountry)
                    /\ logged' = LogDates(WithDate(FilterCountry(df', NoCountry)))
                    /\ covid_monthly' = process_covid_monthly_data(covid_daily')
                    /\ covid_monthly_country' = FilterMonthly(covid_monthly', country)
               ELSE /\ df' = <<>>
                    /\ covid_daily' = {}
                    /\ logged' = NoLog
                    /\ covid_monthly' = {}
                    /\ covid_monthly_country' = {}
            /\ IF "flight" \in rd
               THEN /\ df_flight' = raw_dir[ym].df_flight
                    /\ df_flight_mapped' =
                          map_flight_data(df_flight', AirportTable, CountryTable)
                    /\ df_flight_monthly' =
                          process_flight_data(df_flight_mapped', "destination",
                                              "year_month", fc)
               ELSE /\ df_flight' = <<>>
                    /\ df_flight_mapped' = <<>>
                    /\ df_flight_monthly' = {}
            /\ bound' = (IF "covid" \in rd
                         THEN {"covid_daily", "covid_monthly", "covid_monthly_country"}
                         ELSE {})
                        \cup (IF "flight" \in rd
                              THEN {"df_flight_mapped", "df_flight_monthly"} ELSE {})
            /\ files' =
                  LET afterCovid == IF "covid" \in rd
                                    THEN CovidFiles(files, ym, country, covid_monthly')
                                    ELSE files
                  IN  IF "flight" \in rd
                      THEN FlightFiles(afterCovid, ym, country, df_flight_monthly')
                      ELSE afterCovid
            /\ outcome' = IF "covid" \in rd THEN "returned" ELSE "UnboundLocalError"
    /\ pc' = "exports"
    /\ UNCHANGED <<dashVars, country, raw_dir>>

CovidAllFiles == Glob(files, Chars("covid") \o Chars("_"), Chars("_") \o Chars("all"))

CovidUSFiles == Glob(files, Chars("covid") \o Chars("_"), Chars("_") \o Chars("US"))

FlightUSFiles == Glob(files, Chars("flight") \o Chars("_"), Chars("_") \o Chars("US"))

\* load_data, lines 41-66, when each of the three globs finds a file (the
\* renaming, merge and melt of lines 68-88 reshape these tables)
LoadData ==
    /\ pc = "exports"
    /\ CovidAllFiles # {} /\ CovidUSFiles # {} /\ FlightUSFiles # {}
    /\ df_covid_month' = MonthlyDiff(SumCases(FillNa(ReadCases(CovidAllFiles))))
    /\ df_covid_month_US' = MonthlyDiff(SumCases(ReadCases(CovidUSFiles)))
    /\ df_end2' = SumFlights(ReadFlights(FlightUSFiles))
    /\ df_end' = SumByDestination(df_end2')
    /\ pc' = "loaded"
    /\ UNCHANGED <<country, covidVars, flightVars, mainVars>>

\* load_data when a glob finds no file: pd.concat of an empty list raises
LoadDataFails ==
    /\ pc = "exports"
    /\ CovidAllFiles = {} \/ CovidUSFiles = {} \/ FlightUSFiles = {}
    /\ pc' = "load_failed"
    /\ UNCHANGED <<dashVars, country, covidVars, flightVars, mainVars>>

NextDash == RunMain \/ LoadData \/ LoadDataFails

SpecDashFlight == InitDashFlight /\ [][NextDash]_vars

\* the same runs over case tables of two countries and three months, the
\* files of a selector holding rows of its month and of the month after it
MaxDashRows == 2

DashCounters(c, ts) ==
    IF c = "US"
    THEN CASE ts[2] = 1 -> Counters(Some(1), Some(0), Null, Some(1))
           [] ts[2] = 2 -> Counters(Some(2), Some(1), Null, Some(0))
           [] OTHER -> Counters(Some(4), Null, Some(1), Some(2))
    ELSE CASE ts[2] = 1 -> Counters(Some(4), Null, Some(1), Some(2))
           [] ts[2] = 2 -> Counters(Some(1), Some(0), Null, Some(1))
           [] OTHER -> Counters(Some(2), Some(1), Null, Some(0))

DashStamps(ym) ==
    IF ym = "202101" THEN {<<2021, 1, 30, 4>>, <<2021, 2, 1, 4>>}
    ELSE {<<2021, 2, 1, 4>>, <<2021, 3, 1, 4>>}

DashCasePool(ym) ==
    {CaseRow(c, ts, DashCounters(c, ts)) : c \in CountryPool, ts \in DashStamps(ym)}

DashFlightTable == <<Itinerary(<<2021, 1, 5, 9>>, Some("CYYZ"), Some("KJFK"))>>

InitDashCovid ==
    /\ NoFlight
    /\ NoCovid
    /\ NoDash
    /\ pc = "exports"
    /\ year_month = ""
    /\ country = CountryList(<<"US">>)
    /\ readable = Sources
    /\ \E t1 \in Tables(DashCasePool("202101"), MaxDashRows),
          t2 \in Tables(DashCasePool("202102"), MaxDashRows) :
          raw_dir = [ym \in Selectors |->
                        [df |-> IF ym = "202101" THEN t1 ELSE t2,
                         df_flight |-> DashFlightTable]]
    /\ flight_country = NoCountry
    /\ covid_monthly_country = {}
    /\ bound = {}
    /\ outcome = "running"
    /\ files = {}

SpecDashCovid == InitDashCovid /\ [][NextDash]_vars

----------------------------------------------------------------------------
(* Claims about the case aggregation                                        *)

DailyDone == pc \in {"daily", "monthly"}

\* the rows of the same country with an earlier date
Earlier(r) == {q \in covid_daily : q.Country_Region = r.Country_Region
                                   /\ LexLt(q.date, r.date)}

\* the row of the same country on its immediately preceding date
Preceding(r) == CHOOSE q \in Earlier(r) : \A x \in Earlier(r) : ~LexLt(q.date, x.date)

\* C1 (as claimed): every row that is not its country's earliest has, for each
\* counter, daily_new = its cumulative value minus the cumulative value of the
\* same country on that country's preceding date, whatever other countries
\* the table holds.
C1_DeltaPerCountry ==
    DailyDone =>
        \A r \in covid_daily : Earlier(r) # {} =>
            \A s \in stats :
                r.daily_new[s] = NullSub(r.cumulative[s], Preceding(r).cumulative[s])

\* C2 (as claimed): the row of each country's earliest date has a null
\* daily_new for all four counters.
C2_FirstDayNull ==
    DailyDone =>
        \A r \in covid_daily : Earlier(r) = {} =>
            \A s \in stats : IsNull(r.daily_new[s])

\* the keys (year_month, Country_Region) that have at least one daily row
MonthKeys == {<<<<r.date[1], r.date[2]>>, r.Country_Region>> : r \in covid_daily}

DailyOf(m) == {r \in covid_daily : /\ r.date[1] = m.year_month[1]
                                   /\ r.date[2] = m.year_month[2]
                                   /\ r.Country_Region = m.Country_Region}

\* C3: every monthly row's cumulative value of a counter is the greatest
\* non-null daily cumulative value of that country in that month (null when
\* the month has none), and there is exactly one monthly row per
\* (year_month, Country_Region) that has a daily row.
C3_MonthlyMax ==
    pc = "monthly" =>
        /\ {<<m.year_month, m.Country_Region>> : m \in covid_monthly} = MonthKeys
        /\ Cardinality(covid_monthly) = Cardinality(MonthKeys)
        /\ \A m \in covid_monthly : \A s \in stats :
              LET vals == {r.cumulative[s] : r \in DailyOf(m)} \ {Null}
              IN  IF vals = {} THEN IsNull(m.cumulative[s])
                  ELSE /\ m.cumulative[s] \in vals
                       /\ \A v \in vals : v[1] <= m.cumulative[s][1]

\* C3 witness: a month of one country with a larger cumulative value on an
\* earlier day than on its last day
C3_Witness ==
    /\ pc = "monthly"
    /\ \E m \in covid_monthly : \E a, b \in DailyOf(m) :
          /\ LexLt(a.date, b.date)
          /\ ~IsNull(a.cumulative["Confirmed"]) /\ ~IsNull(b.cumulative["Confirmed"])
          /\ a.cumulative["Confirmed"][1] > b.cumulative["Confirmed"][1]
          /\ m.cumulative["Confirmed"] = a.cumulative["Confirmed"]

\* the sum of the non-null daily deltas of a monthly row's days (0 for none)
DeltaSum(m, s) == SumOn([r \in DailyOf(m) |-> r.daily_new[s]], DailyOf(m))

HasDelta(m, s) == \E r \in DailyOf(m) : ~IsNull(r.daily_new[s])

\* C4 (as claimed): monthly_new is the sum of the non-null daily deltas of the
\* month, also when the month has no non-null delta (a sum of nothing, 0).
C4_MonthlyNewIsSum ==
    pc = "monthly" =>
        \A m \in covid_monthly : \A s \in stats :
            m.monthly_new[s] = Some(DeltaSum(m, s))

\* C4 (amended): monthly_new is the sum of the non-null daily deltas of the
\* month when there is at least one, null deltas being skipped, and is null
\* when every daily delta of the month is null.
C4_MonthlyNewSkipsNulls ==
    pc = "monthly" =>
        \A m \in covid_monthly : \A s \in stats :
            m.monthly_new[s] = IF HasDelta(m, s) THEN Some(DeltaSum(m, s)) ELSE Null

\* C4 witness: a month holding a null delta next to a non-null one
C4_Witness ==
    /\ pc = "monthly"
    /\ \E m \in covid_monthly : \E a, b \in DailyOf(m) :
          /\ IsNull(a.daily_new["Confirmed"])
          /\ ~IsNull(b.daily_new["Confirmed"])
          /\ m.monthly_new["Confirmed"] = Some(DeltaSum(m, "Confirmed"))


\* the dates present in the raw table and the summed counter of one date
RawDays == {date_format_day(df[i].Last_Update) : i \in DOMAIN df}

DayRows(d) == {i \in DOMAIN df : date_format_day(df[i].Last_Update) = d}

DaySum(d, s) == SumOn([i \in DayRows(d) |-> df[i].counters[s]], DayRows(d))

FirstDay == CHOOSE d \in RawDays : \A e \in RawDays : ~LexLt(e, d)

LastDay == CHOOSE d \in RawDays : \A e \in RawDays : ~LexLt(d, e)

\* the raw table holds one country (not excluded by the allow-list) on n
\* consecutive days of one month of 2020..2024, each day with a value of s
OneSeries(s) ==
    /\ df # <<>>
    /\ \A i, j \in DOMAIN df : df[i].Country_Region = df[j].Country_Region
    /\ ~country.given \/ \E k \in DOMAIN country.names :
                              country.names[k] = df[1].Country_Region
    /\ Null \notin RawDays
    /\ \A d \in RawDays : d[1] = FirstDay[1] /\ d[2] = FirstDay[2] /\ d[1] \in 2020..2024
    /\ \A k \in FirstDay[3]..LastDay[3] : <<FirstDay[1], FirstDay[2], k>> \in RawDays
    /\ \A d \in RawDays : \E i \in DayRows(d) : ~IsNull(df[i].counters[s])

SeriesMax(s) == CHOOSE v \in {DaySum(d, s) : d \in RawDays} :
                    \A d \in RawDays : DaySum(d, s) <= v

\* C5 (as claimed): one country on n consecutive days of one month with daily
\* sums c1..cn gives exactly one monthly row, with cumulative = max(c1..cn)
\* and monthly-new = cn - c1, for every n >= 1.
C5_SeriesAnyLength ==
    pc = "monthly" =>
        \A s \in stats : OneSeries(s) =>
            /\ Cardinality(covid_monthly) = 1
            /\ \A m \in covid_monthly :
                  /\ m.cumulative[s] = Some(SeriesMax(s))
                  /\ m.monthly_new[s] = Some(DaySum(LastDay, s) - DaySum(FirstDay, s))

\* C5 (amended): the same, with monthly-new = cn - c1 for n >= 2 and a null
\* monthly-new for n = 1 (the only day has no delta).
C5_SeriesOfTwoOrMore ==
    pc = "monthly" =>
        \A s \in stats : OneSeries(s) =>
            /\ Cardinality(covid_monthly) = 1
            /\ \A m \in covid_monthly :
                  /\ m.cumulative[s] = Some(SeriesMax(s))
                  /\ m.monthly_new[s] =
                        IF FirstDay # LastDay
                        THEN Some(DaySum(LastDay, s) - DaySum(FirstDay, s))
                        ELSE Null

\* C5 witness: three consecutive days with growing Confirmed sums
C5_Witness ==
    /\ pc = "monthly"
    /\ OneSeries("Confirmed")
    /\ Cardinality(RawDays) = 3
    /\ \E m \in covid_monthly :
          /\ m.cumulative["Confirmed"] = Some(DaySum(LastDay, "Confirmed"))
          /\ m.monthly_new["Confirmed"] # Null
          /\ m.monthly_new["Confirmed"][1] > 0

\* the rows of the raw table with a date in 2020..2024
ValidRows == {i \in DOMAIN df : /\ ~IsNull(df[i].Last_Update)
                                /\ df[i].Last_Update[1] \in 2020..2024}

AllowedRows == {i \in DOMAIN df : \/ ~country.given
                                  \/ \E k \in DOMAIN country.names :
                                        country.names[k] = df[i].Country_Region}

\* the (date, country) sums over the rows I of the raw table
SumsOver(I) ==
    { [date |-> k[1], Country_Region |-> k[2],
       cumulative |-> [s \in stats |->
            LET grp == {i \in I : /\ date_format_day(df[i].Last_Update) = k[1]
                                  /\ df[i].Country_Region = k[2]}
            IN  IF \A i \in grp : IsNull(df[i].counters[s]) THEN Null
                ELSE Some(SumOn([i \in grp |-> df[i].counters[s]], grp))]]
      : k \in {<<date_format_day(df[i].Last_Update), df[i].Country_Region>> : i \in I} }

DailySums == {[date |-> r.date, Country_Region |-> r.Country_Region,
               cumulative |-> r.cumulative] : r \in covid_daily}

\* C6 (as claimed): a row of the input contributes to the output if and only
\* if its date is non-null with a year in 2020..2024: the output's sums are the
\* sums over exactly those rows.
C6_ValidDateIffContributes ==
    DailyDone => DailySums = SumsOver(ValidRows)

\* C6 (amended): a row of the input contributes if and only if it passes the
\* country allow-list (when one is given) and its date is non-null with a year
\* in 2020..2024; no output row has a null date or a year outside 2020..2024.
C6_ValidAllowedIffContributes ==
    DailyDone =>
        /\ DailySums = SumsOver(ValidRows \cap AllowedRows)
        /\ \A r \in covid_daily : ~IsNull(r.date) /\ r.date[1] >= 2020 /\ r.date[1] <= 2024

\* C6 witness: a table with a row of 2682, a row without date and a row of
\* 2024, of which the row of 2024 alone is in the output
C6_Witness ==
    /\ DailyDone
    /\ \E i, j, k \in DOMAIN df :
          /\ IsNull(df[i].Last_Update)
          /\ ~IsNull(df[j].Last_Update) /\ df[j].Last_Update[1] = 2682
          /\ ~IsNull(df[k].Last_Update) /\ df[k].Last_Update[1] = 2024
    /\ Cardinality(covid_daily) = 1
    /\ \A r \in covid_daily : r.date[1] = 2024

----------------------------------------------------------------------------
(* Claims about the flight aggregation                                      *)

RECURSIVE TotalCount(_)
TotalCount(rows) ==
    IF rows = {} THEN 0
    ELSE LET r == CHOOSE x \in rows : TRUE
         IN  r.flight_count + TotalCount(rows \ {r})

\* C7: no row of the result of process_flight_data has equal origin and
\* destination country codes, and the counted itineraries are no more than the
\* mapped itineraries whose two codes differ, for every direction, granularity
\* and country filter, also when the names of the two sides differ.
C7_NoDomestic ==
    pc = "counted" =>
        /\ \A r \in df_flight_monthly :
              r.origin_country_code # r.destination_country_code
        /\ TotalCount(df_flight_monthly) <=
              Cardinality({i \in DOMAIN df_flight_mapped :
                  df_flight_mapped[i].origin_country_code
                      # df_flight_mapped[i].destination_country_code})

\* C7 witness: a mapped itinerary inside one country code under two different
\* names, next to a counted international one, with a country filter
C7_Witness ==
    /\ pc = "counted"
    /\ country.given /\ country.names # <<>>
    /\ \E i \in DOMAIN df_flight_mapped :
          /\ df_flight_mapped[i].origin_country_code
                = df_flight_mapped[i].destination_country_code
          /\ df_flight_mapped[i].origin_country # df_flight_mapped[i].destination_country
    /\ df_flight_monthly # {}

----------------------------------------------------------------------------
(* Claims about the dashboard's reload of the flight files                  *)

\* the selectors whose flight file is in the save folder
Exported == {ym \in Selectors :
                \E f \in files : f.name = FileName("flight", ym, Scope(country.names))}

RECURSIVE ConcatAll(_)
ConcatAll(ss) == IF ss = <<>> THEN <<>> ELSE Head(ss) \o ConcatAll(Tail(ss))

\* the raw itineraries behind the flight files, as one table
RawUnionTable ==
    LET l == SetToSeq(Exported)
    IN  ConcatAll([i \in DOMAIN l |-> raw_dir[l[i]].df_flight])

\* process_flight_data once over that table, as main calls it
DirectRows ==
    { [year_month |-> r.bucket,
       destination_country |-> r.destination_country,
       destination_country_code |-> r.destination_country_code,
       origin_country |-> r.origin_country,
       origin_country_code |-> r.origin_country_code,
       flight_count |-> r.flight_count]
      : r \in process_flight_data(map_flight_data(RawUnionTable, AirportTable, CountryTable),
                                  "destination", "year_month", FlightCountry(country)) }

\* C8 (as claimed): after load_data, the reloaded flight summary has, for
\* every key and in total, the counts of process_flight_data run once over the
\* union of the raw itineraries behind the loaded files.
C8_ReloadEqualsDirect ==
    pc = "loaded" => df_end2 = DirectRows

----------------------------------------------------------------------------
(* Claims about main                                                        *)

ReferencesLoad == {"airports", "countries"} \subseteq readable

\* C9 (as claimed): whenever both reference tables load, main returns
\* normally, whatever the case load, the flight load and the country argument.
C9_RaisesOnlyOnReferences ==
    (pc = "done" /\ ReferencesLoad) => outcome = "returned"

HasFile(kind) ==
    \E f \in files : SubSeq(f.name, 1, Len(Chars(kind))) = Chars(kind)

\* C10 (as claimed): when the reference tables load, a failed case load leaves
\* the flight file written and a failed flight load leaves the case file
\* written, at the end of main.
C10_OtherSourceWritten ==
    (pc = "done" /\ ReferencesLoad) =>
        /\ ("covid" \notin readable /\ "flight" \in readable) => HasFile("flight")
        /\ ("flight" \notin readable /\ "covid" \in readable) => HasFile("covid")

----------------------------------------------------------------------------
(* Claims about the files that main writes                                  *)

\* the files of the save folder whose name starts with kind
FilesOfKind(kind) ==
    {f \in files : /\ Len(f.name) >= Len(Chars(kind))
                   /\ SubSeq(f.name, 1, Len(Chars(kind))) = Chars(kind)}

\* main has run to its end past the loads of the reference tables
MainWrote == pc = "done" /\ outcome \in {"returned", "UnboundLocalError"}

\* the flight summary of all countries: process_flight_data without a filter
FlightOfAll ==
    to_csv_flight(process_flight_data(df_flight_mapped, "destination", "year_month",
                                      NoCountry))

\* C11 (as claimed): at the end of a run of main, each summary table that was
\* produced has two files, one holding all countries and one holding the
\* filtered subset, the case summary and the flight summary alike.
C11_TwoFilesPerTable ==
    MainWrote =>
        /\ "covid_monthly" \in bound =>
              \E a, b \in FilesOfKind("covid") :
                  /\ a.name # b.name
                  /\ a.table = to_csv_covid(covid_monthly)
                  /\ b.table = to_csv_covid(FilterMonthly(covid_monthly, country))
        /\ "df_flight_monthly" \in bound =>
              \E a, b \in FilesOfKind("flight") :
                  /\ a.name # b.name
                  /\ a.table = FlightOfAll
                  /\ b.table = to_csv_flight(df_flight_monthly)

\* C11 (amended): at the end of a run of main that got past the reference
\* loads, a case summary that was produced is in the file covid_<ym>_all and,
\* for a non-empty country list, its rows of the listed countries are in the
\* file covid_<ym>_<scope>: two files when the scope is not 'all', one file
\* otherwise; a flight summary that was produced is in exactly one file,
\* flight_<ym>_<scope>, which holds the summary filtered by the list; a table
\* that was not produced has no file.
C11_FilesPerTable ==
    MainWrote =>
        LET allName == FileName("covid", year_month, Chars("all"))
            subName == FileName("covid", year_month, Scope(country.names))
            fltName == FileName("flight", year_month, Scope(country.names))
        IN  /\ IF "covid_monthly" \in bound
               THEN IF Truthy(country)
                    THEN /\ {f.name : f \in FilesOfKind("covid")} = {allName, subName}
                         /\ \A f \in FilesOfKind("covid") :
                               /\ f.name = subName =>
                                     f.table = to_csv_covid(FilterMonthly(covid_monthly,
                                                                          country))
                               /\ f.name # subName => f.table = to_csv_covid(covid_monthly)
                    ELSE FilesOfKind("covid") =
                            {[name |-> allName, table |-> to_csv_covid(covid_monthly)]}
               ELSE FilesOfKind("covid") = {}
            /\ IF "df_flight_monthly" \in bound
               THEN FilesOfKind("flight") =
                        {[name |-> fltName, table |-> to_csv_flight(df_flight_monthly)]}
               ELSE FilesOfKind("flight") = {}
            /\ Cardinality(files) = Cardinality({f.name : f \in files})

\* C11 witness: a run with a country list in which both summaries were
\* produced, ending with two different case files and one flight file
C11_Witness ==
    /\ MainWrote
    /\ Truthy(country)
    /\ {"covid_monthly", "df_flight_monthly"} \subseteq bound
    /\ Cardinality(FilesOfKind("covid")) = 2
    /\ Cardinality(FilesOfKind("flight")) = 1
    /\ \E f \in FilesOfKind("covid") : f.table # to_csv_covid(covid_monthly)

\* the scope that the claim gives a country argument: 'all' without a filter,
\* else the names joined by an underscore
ClaimedScope(c) == IF Truthy(c) THEN Join(Chars("_"), c.names) ELSE Chars("all")

\* C12 (as claimed): every file main writes is named covid_<year_month>_<scope>
\* or flight_<year_month>_<scope>, <scope> being 'all' when no country filter
\* was supplied and otherwise the supplied names joined by an underscore.
C12_NamesAsClaimed ==
    MainWrote =>
        \A f \in files :
            \/ f.name = FileName("covid", year_month, ClaimedScope(country))
            \/ f.name = FileName("flight", year_month, ClaimedScope(country))

\* the text of the selector of the run, character by character
SelectorText ==
    IF year_month = "202101" THEN <<"2", "0", "2", "1", "0", "1">>
    ELSE <<"2", "0", "2", "1", "0", "2">>

\* the text expected as scope of each country list: the names joined by two
\* underscores, a space written as one underscore, '*' written as 'all',
\* nothing for the empty list
ScopeText(c) ==
    CASE c.names = <<>> -> <<>>
      [] c.names = <<"US">> -> <<"U", "S">>
      [] c.names = <<"France">> -> <<"F", "r", "a", "n", "c", "e">>
      [] c.names = <<"US", "France">> ->
            <<"U", "S", "_", "_", "F", "r", "a", "n", "c", "e">>
      [] c.names = <<"*">> -> <<"a", "l", "l">>
      [] c.names = <<"United States", "France">> ->
            <<"U", "n", "i", "t", "e", "d", "_", "S", "t", "a", "t", "e", "s",
              "_", "_", "F", "r", "a", "n", "c", "e">>

\* C12 (amended): every case file main writes is named covid_<year_month>_all
\* or covid_<year_month>_<scope> and every flight file flight_<year_month>_<scope>,
\* <year_month> being the selector passed to main and <scope> the supplied
\* names joined by two underscores, with each space replaced by an underscore
\* and each '*' by 'all' (empty for an empty list).
C12_NamesAsWritten ==
    MainWrote =>
        /\ \A f \in FilesOfKind("covid") :
              \/ f.name = <<"c", "o", "v", "i", "d", "_">> \o SelectorText
                             \o <<"_", "a", "l", "l">>
              \/ f.name = <<"c", "o", "v", "i", "d", "_">> \o SelectorText \o <<"_">>
                             \o ScopeText(country)
        /\ \A f \in FilesOfKind("flight") :
              f.name = <<"f", "l", "i", "g", "h", "t", "_">> \o SelectorText \o <<"_">>
                          \o ScopeText(country)
        /\ files = FilesOfKind("covid") \cup FilesOfKind("flight")

\* C12 witness: a run with a list of two names, one holding a space, that
\* wrote the three files
C12_Witness ==
    /\ MainWrote
    /\ country = CountryList(<<"United States", "France">>)
    /\ Cardinality(FilesOfKind("covid")) = 2
    /\ Cardinality(FilesOfKind("flight")) = 1

----------------------------------------------------------------------------
(* Claims about the flight mapping and the flight counts                    *)

FlightMapped == pc \in {"mapped", "counted"}

\* the country codes that the airport table gives an airport code, and the
\* names that the country table gives a country code
CodesOfAirport(a) == {x.country : x \in {y \in airports : Some(y.icao) = a}}

NamesOfCode(k) == {x.country : x \in {y \in countries : y.country_code = k}}

\* the (code, name) pairs an airport code resolves to: none when the airport
\* is in no row of the airport table or its code in no row of the country table
Resolutions(a) ==
    UNION { {<<k, n>> : n \in NamesOfCode(k)} : k \in CodesOfAirport(a) }

\* the rows one itinerary is expected to give: none without a day
RowsExpected(f) ==
    IF IsNull(f.day) THEN 0
    ELSE Cardinality(Resolutions(f.origin)) * Cardinality(Resolutions(f.destination))

RECURSIVE RowsExpectedOf(_)
RowsExpectedOf(t) == IF t = <<>> THEN 0 ELSE RowsExpected(Head(t)) + RowsExpectedOf(Tail(t))

\* C13: every row of the result of map_flight_data has an origin country name,
\* a destination country name and a day, and stems from an itinerary whose
\* day is a date and whose two airports resolve to a country; an itinerary
\* with an airport in no row of the airport table, a country code in no row of
\* the country table or no readable day gives no row.
C13_MappedRowsResolved ==
    FlightMapped =>
        /\ \A i \in DOMAIN df_flight_mapped :
              LET r == df_flight_mapped[i]
              IN  /\ ~IsNull(r.origin_country)
                  /\ ~IsNull(r.destination_country)
                  /\ ~IsNull(r.day)
                  /\ \E j \in DOMAIN df_flight :
                        /\ ~IsNull(df_flight[j].day)
                        /\ r.day = <<df_flight[j].day[1], df_flight[j].day[2],
                                     df_flight[j].day[3]>>
                        /\ r.origin_icao = df_flight[j].origin
                        /\ r.destination_icao = df_flight[j].destination
                        /\ <<r.origin_country_code[1], r.origin_country[1]>>
                              \in Resolutions(df_flight[j].origin)
                        /\ <<r.destination_country_code[1], r.destination_country[1]>>
                              \in Resolutions(df_flight[j].destination)
        /\ Len(df_flight_mapped) = RowsExpectedOf(df_flight)

\* C13 witness: a table with an itinerary from an unknown airport, one without
\* a day and one that is mapped
C13_Witness ==
    /\ pc = "mapped"
    /\ \E i, j \in DOMAIN df_flight :
          /\ CodesOfAirport(df_flight[i].origin) = {}
          /\ IsNull(df_flight[j].day)
          /\ Resolutions(df_flight[j].origin) # {}
          /\ Resolutions(df_flight[j].destination) # {}
    /\ Len(df_flight) = 3
    /\ Len(df_flight_mapped) = 1

\* the mapped itineraries that pass the filters of process_flight_data as it
\* was called: the country filter on the chosen direction (when a non-empty
\* list is given) and the exclusion of domestic itineraries
Passing ==
    {i \in DOMAIN df_flight_mapped :
        LET r == df_flight_mapped[i]
        IN  /\ r.origin_country_code # r.destination_country_code
            /\ (country.given /\ country.names # <<>>) =>
                  \E n \in DOMAIN country.names :
                      Some(country.names[n]) =
                          (IF direction = "origin" THEN r.origin_country
                           ELSE r.destination_country)}

\* the group of a mapped itinerary: time bucket, origin and destination
GroupOf(r) ==
    <<IF granular = "day" THEN r.day ELSE r.year_month,
      r.origin_country, r.origin_country_code,
      r.destination_country, r.destination_country_code>>

GroupOfRow(r) ==
    <<r.bucket, r.origin_country, r.origin_country_code,
      r.destination_country, r.destination_country_code>>

\* C14: every row of the result of process_flight_data counts the mapped
\* itineraries that pass the filters and share its time bucket, origin country
\* and code and destination country and code; there is exactly one row per
\* non-empty group, and the counts add up to the number of itineraries that
\* pass the filters.
C14_CountPerGroup ==
    pc = "counted" =>
        /\ \A r \in df_flight_monthly :
              r.flight_count =
                  Cardinality({i \in Passing : GroupOf(df_flight_mapped[i]) = GroupOfRow(r)})
        /\ {GroupOfRow(r) : r \in df_flight_monthly}
              = {GroupOf(df_flight_mapped[i]) : i \in Passing}
        /\ Cardinality(df_flight_monthly)
              = Cardinality({GroupOf(df_flight_mapped[i]) : i \in Passing})
        /\ TotalCount(df_flight_monthly) = Cardinality(Passing)

\* C14 witness: by destination and month with a country filter, two
\* itineraries counted in one row and a third one filtered out
C14_Witness ==
    /\ pc = "counted"
    /\ direction = "destination" /\ granular = "year_month"
    /\ country.given /\ country.names # <<>>
    /\ Len(df_flight_mapped) = 3
    /\ Cardinality(Passing) = 2
    /\ \E r \in df_flight_monthly : r.flight_count = 2
    /\ \E i, j \in Passing : df_flight_mapped[i].day # df_flight_mapped[j].day
    /\ \E i \in DOMAIN df_flight_mapped :
          df_flight_mapped[i].origin_country_code
              # df_flight_mapped[i].destination_country_code /\ i \notin Passing

----------------------------------------------------------------------------
(* Claims about the dashboard's reload of the case files                    *)

\* the rows of the loaded case files of all countries, file by file
ExportedCaseRows == UNION {f.table : f \in CovidAllFiles}

\* a counter as load_data takes it after fillna(0)
Filled(v) == IF IsNull(v) THEN 0 ELSE v[1]

\* C15 (as claimed): after load_data, every (year_month, Country_Region) key
\* of the loaded case files, also one that occurs in several files, is exactly
\* one row of the reloaded summary, and each cumulative counter of that row is
\* the counter of a single exported row of the key.
C15_DuplicateKeepsCumulative ==
    pc = "loaded" =>
        /\ {<<r.year_month, r.Country_Region>> : r \in df_covid_month}
              = {<<q.year_month, Some(q.Country_Region)>> : q \in ExportedCaseRows}
        /\ Cardinality(df_covid_month)
              = Cardinality({<<q.year_month, Some(q.Country_Region)>> : q \in ExportedCaseRows})
        /\ \A r \in df_covid_month : \A s \in stats :
              \E q \in ExportedCaseRows :
                  /\ q.year_month = r.year_month
                  /\ Some(q.Country_Region) = r.Country_Region
                  /\ r.cumulative[s] = Filled(q.cumulative[s])

\* the rows of g of the country of r in an earlier month
EarlierMonths(g, r) ==
    {q \in g : q.Country_Region = r.Country_Region /\ LexLt(q.year_month, r.year_month)}

\* in the reloaded table g every monthly_new is the cumulative value minus the
\* one of the same country in its latest earlier month of g, and is NaN in the
\* country's earliest month
DiffPerCountry(g) ==
    \A r \in g : \A s \in stats :
        IF EarlierMonths(g, r) = {} THEN IsNull(r.monthly_new[s])
        ELSE \E q \in EarlierMonths(g, r) :
                /\ \A x \in EarlierMonths(g, r) : ~LexLt(q.year_month, x.year_month)
                /\ r.monthly_new[s] = Some(r.cumulative[s] - q.cumulative[s])

\* C16: after load_data, for every country and counter the recomputed
\* monthly_new of a month is that country's reloaded cumulative value of the
\* month minus the same country's value of the preceding month present in the
\* loaded data, and is NaN for the country's earliest loaded month; no value of
\* another country enters the difference.
C16_ReloadedDiffPerCountry ==
    pc = "loaded" => DiffPerCountry(df_covid_month) /\ DiffPerCountry(df_covid_month_US)

\* C16 witness: two countries loaded, one of them without a row in a month
\* that the other has, so that its difference spans the gap
C16_Witness ==
    /\ pc = "loaded"
    /\ \E r, q, x \in df_covid_month :
          /\ r.Country_Region = q.Country_Region
          /\ x.Country_Region # r.Country_Region
          /\ LexLt(q.year_month, x.year_month) /\ LexLt(x.year_month, r.year_month)
          /\ EarlierMonths(df_covid_month, r) = {q}
          /\ r.monthly_new["Confirmed"] = Some(r.cumulative["Confirmed"]
                                                  - q.cumulative["Confirmed"])
          /\ x.cumulative["Confirmed"] # q.cumulative["Confirmed"]

----------------------------------------------------------------------------
(* Further claims about the case aggregation                                *)

\* the cumulative values of counter s do not decrease from any monthly row of
\* country c to a row of a later month of c (null values aside)
MonthlyNonDecreasing(c, s) ==
    \A a, b \in covid_monthly :
        (/\ a.Country_Region = c /\ b.Country_Region = c
         /\ LexLt(a.year_month, b.year_month)
         /\ ~IsNull(a.cumulative[s]) /\ ~IsNull(b.cumulative[s]))
        => a.cumulative[s][1] <= b.cumulative[s][1]

\* the daily sums of counter s of country c do not decrease with the date
DailyNonDecreasing(c, s) ==
    \A a, b \in covid_daily :
        (/\ a.Country_Region = c /\ b.Country_Region = c
         /\ LexLt(a.date, b.date)
         /\ ~IsNull(a.cumulative[s]) /\ ~IsNull(b.cumulative[s]))
        => a.cumulative[s][1] <= b.cumulative[s][1]

\* C17 (as claimed): in the country-month summary, for every country and
\* counter the cumulative value does not decrease from a month to the next
\* month present for that country.
C17_MonthlyNonDecreasing ==
    pc = "monthly" =>
        \A c \in CountryPool : \A s \in stats : MonthlyNonDecreasing(c, s)

\* C17 (amended): for every country and counter whose daily sums do not
\* decrease with the date, the cumulative value of the summary does not
\* decrease from a month to the next month present for that country.
C17_MonotoneInputMonotoneSummary ==
    pc = "monthly" =>
        \A c \in CountryPool : \A s \in stats :
            DailyNonDecreasing(c, s) => MonthlyNonDecreasing(c, s)

\* C17 witness: a country with growing daily sums over two months next to a
\* country whose value of the first month is larger
C17_Witness ==
    /\ pc = "monthly"
    /\ DailyNonDecreasing("US", "Confirmed")
    /\ \E a, b \in covid_monthly :
          /\ a.Country_Region = "US" /\ b.Country_Region = "US"
          /\ LexLt(a.year_month, b.year_month)
          /\ ~IsNull(a.cumulative["Confirmed"]) /\ ~IsNull(b.cumulative["Confirmed"])
          /\ a.cumulative["Confirmed"][1] < b.cumulative["Confirmed"][1]
          /\ \E f \in covid_monthly :
                /\ f.Country_Region = "France"
                /\ f.year_month = a.year_month
                /\ ~IsNull(f.cumulative["Confirmed"])
                /\ f.cumulative["Confirmed"][1] > b.cumulative["Confirmed"][1]

\* the rows of the raw table that the filters of process_covid_daily_data keep
RetainedRows == ValidRows \cap AllowedRows

\* the retained rows of one date and country
RetainedOf(d, c) ==
    {i \in RetainedRows : /\ date_format_day(df[i].Last_Update) = d
                          /\ df[i].Country_Region = c}

RetainedKeys ==
    {<<date_format_day(df[i].Last_Update), df[i].Country_Region>> : i \in RetainedRows}

\* C18: the result of process_covid_daily_data has exactly one row per
\* (date, Country_Region) pair of the retained input rows, and each counter of
\* the row is the sum of that counter over all retained rows of that date and
\* country (the rows without a value of the counter add nothing; the counter
\* is null when no row of the pair has a value).
C18_OneRowPerDayAndCountry ==
    DailyDone =>
        /\ {<<r.date, r.Country_Region>> : r \in covid_daily} = RetainedKeys
        /\ Cardinality(covid_daily) = Cardinality(RetainedKeys)
        /\ \A r \in covid_daily : \A s \in stats :
              LET grp == RetainedOf(r.date, r.Country_Region)
                  valued == {i \in grp : ~IsNull(df[i].counters[s])}
              IN  IF valued = {} THEN IsNull(r.cumulative[s])
                  ELSE r.cumulative[s] = Some(SumOn([i \in valued |-> df[i].counters[s]],
                                                    valued))

\* C18 witness: two retained rows of one date and country with equal counters
\* whose sum is in the result, next to a row that the allow-list excludes
C18_Witness ==
    /\ DailyDone
    /\ \E i, j \in RetainedRows :
          /\ i # j
          /\ df[i] = df[j]
          /\ \E r \in covid_daily :
                /\ r.date = date_format_day(df[i].Last_Update)
                /\ r.Country_Region = df[i].Country_Region
                /\ r.cumulative["Confirmed"] = Some(2 * df[i].counters["Confirmed"][1])
    /\ \E k \in DOMAIN df : k \notin AllowedRows

\* the rows that the filter of line 111 drops from the table it is given
DroppedRows ==
    LET t == WithDate(FilterCountry(df, country))
    IN  {i \in DOMAIN t : ~(/\ ~IsNull(t[i].date)
                            /\ t[i].date[1] >= 2020 /\ t[i].date[1] <= 2024)}

\* C19 (as claimed): for every input table, the logged 'date Missing Abnormal'
\* count is the number of rows that the filter drops, and every row shown as
\* offending is a row that gets dropped.
C19_LoggedCountIsDropped ==
    DailyDone =>
        /\ logged.count = Cardinality(DroppedRows)
        /\ \A i \in DOMAIN logged.details :
              \/ IsNull(logged.details[i].date)
              \/ logged.details[i].date[1] < 2020
              \/ logged.details[i].date[1] > 2024

----------------------------------------------------------------------------
(* Further claims about the files that main writes                          *)

\* C20 (as claimed): when main ran with a non-empty country list and the case
\* data loaded, then after all its writes the file covid_<year_month>_all
\* holds the summary of all countries, and the file of the filtered subset has
\* another name, also for a list that holds '*'.
C20_AllFileHoldsAllCountries ==
    (MainWrote /\ Truthy(country) /\ "covid_monthly" \in bound) =>
        /\ [name |-> FileName("covid", year_month, Chars("all")),
            table |-> to_csv_covid(covid_monthly)] \in files
        /\ FileName("covid", year_month, Scope(country.names))
              # FileName("covid", year_month, Chars("all"))

----------------------------------------------------------------------------
(* Claims that relate two ways of computing a summary                       *)

\* the summaries that main's way gives for the table and the allow-list:
\* aggregation of all countries, then the rows of the listed countries
FilteredAfterwards ==
    { FilterMonthly(process_covid_monthly_data(d), country) :
        d \in process_covid_daily_data(df, NoCountry) }

\* C21 (as claimed): for every table and allow-list, process_covid_daily_data
\* with the allow-list followed by process_covid_monthly_data gives the rows,
\* cumulative and monthly-new values, that aggregating without allow-list and
\* then keeping the rows of the listed countries gives.
C21_FilterCommutes ==
    (pc = "monthly" /\ country.given) => covid_monthly \in FilteredAfterwards

\* the other direction
Opposite(dir) == IF dir = "origin" THEN "destination" ELSE "origin"

\* the rows of process_flight_data without a filter whose country on the side
\* dir is in the list
RowsOfSide(dir, names) ==
    {r \in process_flight_data(df_flight_mapped, dir, granular, NoCountry) :
        \E n \in DOMAIN names :
            Some(names[n]) = (IF dir = "origin" THEN r.origin_country
                              ELSE r.destination_country)}

\* C22: without a country filter (None or an empty list) process_flight_data
\* returns for one direction the set of (time bucket, origin country, origin
\* code, destination country, destination code, flight_count) rows that it
\* returns for the other direction; with a filter, the direction decides the
\* side the filter is applied to and leaves the grouping key and the counts
\* as they are: the rows are those of the unfiltered result whose country on
\* that side is in the list.
C22_DirectionKeepsRows ==
    pc = "counted" =>
        IF country.given /\ country.names # <<>>
        THEN df_flight_monthly = RowsOfSide(direction, country.names)
        ELSE df_flight_monthly =
                process_flight_data(df_flight_mapped, Opposite(direction), granular,
                                    country)

\* C22 witness: no filter, and a result with a row from the United States and
\* a row to the United States, one of them counting two itineraries
C22_Witness ==
    /\ pc = "counted"
    /\ ~(country.given /\ country.names # <<>>)
    /\ direction = "destination"
    /\ \E a, b \in df_flight_monthly :
          /\ a.origin_country_code = Some("US")
          /\ b.destination_country_code = Some("US")
          /\ a.flight_count = 2
          /\ a.destination_country_code # b.destination_country_code

====
